---------------------------- MODULE Spec2Model ----------------------------
(***************************************************************************)
(* Key handling and signing of in_toto/keylib.go.                          *)
(*                                                                         *)
(* Byte strings ([]byte) are sequences of numbers in 0..255.  Strings that *)
(* hold key material or a signature are "texts": either the text of one    *)
(* PEM block (its label and its body bytes) or a sequence of one-character *)
(* strings.  DER structures are four bytes <<format, algorithm, key pair,  *)
(* curve>>; the cryptographic primitives are ideal: a signature verifies   *)
(* exactly when it was made by the matching private key over the same      *)
(* input.                                                                  *)
(***************************************************************************)
EXTENDS Integers, Sequences, FiniteSets, TLC

VARIABLES key, signed, last

vars == <<key, signed, last>>

\* ------------------------------------------------------------------ bounds

\* key pairs per algorithm family
NumPairs == 1

\* longest payload handed to GenerateSignature / VerifySignature
MaxPayloadLen == 1

\* ------------------------------------------------------- constants (38-50)

rsaKeyType == "rsa"
ecdsaKeyType == "ecdsa"
ed25519KeyType == "ed25519"
rsassapsssha256Scheme == "rsassa-pss-sha256"
ecdsaSha2nistp224 == "ecdsa-sha2-nistp224"
ecdsaSha2nistp384 == "ecdsa-sha2-nistp384"
ecdsaSha2nistp521 == "ecdsa-sha2-nistp521"
ed25519Scheme == "ed25519"
pemPublicKey == "PUBLIC KEY"
pemPrivateKey == "PRIVATE KEY"
pemRSAPrivateKey == "PRIVATE RSA KEY"

getSupportedKeyIdHashAlgorithms == {"sha256", "sha512"}
getSupportedRSASchemes == {rsassapsssha256Scheme}
getSupportedEcdsaSchemes == {ecdsaSha2nistp224, ecdsaSha2nistp384, ecdsaSha2nistp521}
getSupportedEd25519Schemes == {ed25519Scheme}

\* ------------------------------------------------------------------ errors

NoError == "nil"
ErrFailedPEMParsing == "ErrFailedPEMParsing"
ErrNoPEMBlock == "ErrNoPEMBlock"
ErrUnsupportedKeyType == "ErrUnsupportedKeyType"
ErrInvalidSignature == "ErrInvalidSignature"
ErrInvalidKey == "ErrInvalidKey"
ErrKeyKeyTypeMismatch == "ErrKeyKeyTypeMismatch"
ErrCurveSizeSchemeMismatch == "ErrCurveSizeSchemeMismatch"
ErrInvalidHexString == "ErrInvalidHexString"
\* errors made by the libraries the code calls
ErrHexDecode == "hex.InvalidByteError"
ErrAsn1 == "asn1.SyntaxError"
ErrRsaSign == "rsa.SignPSS error"
ErrRead == "io read error"
\* a Go panic: the call does not return
Panic == "panic"

\* ------------------------------------------------------------------- texts

RangeOf(s) == {s[i] : i \in DOMAIN s}

\* a string given by its characters
Str(chars) == [enc |-> "str", label |-> "", body |-> <<>>, chars |-> chars]

\* the text of one PEM block, without surrounding whitespace
PemText(label, body) == [enc |-> "pem", label |-> label, body |-> body, chars |-> <<>>]

EmptyString == Str(<<>>)

LowerDigits == <<"0","1","2","3","4","5","6","7","8","9","a","b","c","d","e","f">>
UpperDigits == <<"0","1","2","3","4","5","6","7","8","9","A","B","C","D","E","F">>

\* encoding/hex EncodeToString: two lowercase digits per byte
hexEncodeToString(bytes) ==
    Str([i \in 1..(2 * Len(bytes)) |->
            IF i % 2 = 1 THEN LowerDigits[(bytes[(i + 1) \div 2] \div 16) + 1]
                         ELSE LowerDigits[(bytes[i \div 2] % 16) + 1]])

\* encoding/hex fromHexChar: digits and letters of either case; -1 otherwise
fromHexChar(c) ==
    IF \E n \in 1..16 : LowerDigits[n] = c
    THEN (CHOOSE n \in 1..16 : LowerDigits[n] = c) - 1
    ELSE IF \E n \in 1..16 : UpperDigits[n] = c
         THEN (CHOOSE n \in 1..16 : UpperDigits[n] = c) - 1
         ELSE -1

\* encoding/hex DecodeString: fails on an odd length or a character that is
\* no hex digit (every PEM text holds the character '-')
hexDecodeString(text) ==
    IF text.enc # "str" \/ Len(text.chars) % 2 = 1
       \/ \E i \in DOMAIN text.chars : fromHexChar(text.chars[i]) = -1
    THEN [ok |-> FALSE, bytes |-> <<>>]
    ELSE [ok |-> TRUE,
          bytes |-> [i \in 1..(Len(text.chars) \div 2) |->
                        16 * fromHexChar(text.chars[2 * i - 1])
                           + fromHexChar(text.chars[2 * i])]]

\* strings.TrimSpace: the texts of the model carry no outer whitespace
TrimSpace(text) == text

\* generatePEMBlock followed by string(): one block, no headers
generatePEMBlock(keyBytes, pemType) == PemText(pemType, keyBytes)

\* encoding/pem Decode: the first PEM block of the input, or nil
pemDecode(text) ==
    IF text.enc = "pem"
    THEN [found |-> TRUE, Type |-> text.label, Bytes |-> text.body]
    ELSE [found |-> FALSE, Type |-> "", Bytes |-> <<>>]

\* --------------------------------------------------------------- DER, keys

Pairs == 1..NumPairs

fmtPKCS8 == "PKCS8"
fmtPKCS1 == "PKCS1"
fmtPKIX == "PKIX"
FormatCode(f) == CASE f = fmtPKCS8 -> 1 [] f = fmtPKCS1 -> 2 [] f = fmtPKIX -> 3
AlgCode(a) == CASE a = "rsa" -> 1 [] a = "ecdsa" -> 2 [] a = "ed25519" -> 3 [] a = "dsa" -> 4
CurveSizes == {224, 256, 384, 521}
CurveCode(bits) == CASE bits = 224 -> 1 [] bits = 256 -> 2 [] bits = 384 -> 3
                     [] bits = 521 -> 4 [] OTHER -> 0
CurveOfCode(n) == CASE n = 1 -> 224 [] n = 2 -> 256 [] n = 3 -> 384 [] n = 4 -> 521
                    [] OTHER -> 0

\* the DER bytes of a key structure
Der(format, alg, pair, bits) == <<FormatCode(format), AlgCode(alg), pair, CurveCode(bits)>>

\* no key
NilKey == [type |-> "nil", pair |-> 0, bits |-> 0]

WellFormedDer(data, format) ==
    /\ Len(data) = 4
    /\ data[1] = FormatCode(format)
    /\ data[3] >= 1
    /\ (data[2] = 2) <=> (data[4] \in 1..4)

\* crypto/x509 ParsePKCS8PrivateKey: an RSA, ECDSA or Ed25519 private key
ParsePKCS8PrivateKey(data) ==
    IF WellFormedDer(data, fmtPKCS8) /\ data[2] \in 1..3
    THEN [type |-> CASE data[2] = 1 -> "*rsa.PrivateKey"
                     [] data[2] = 2 -> "*ecdsa.PrivateKey"
                     [] data[2] = 3 -> "ed25519.PrivateKey",
          pair |-> data[3], bits |-> CurveOfCode(data[4])]
    ELSE NilKey

\* crypto/x509 ParsePKCS1PrivateKey: an RSA private key
ParsePKCS1PrivateKey(data) ==
    IF WellFormedDer(data, fmtPKCS1) /\ data[2] = 1
    THEN [type |-> "*rsa.PrivateKey", pair |-> data[3], bits |-> 0]
    ELSE NilKey

\* crypto/x509 ParsePKIXPublicKey: an RSA, DSA, ECDSA or Ed25519 public key
ParsePKIXPublicKey(data) ==
    IF WellFormedDer(data, fmtPKIX) /\ data[2] \in 1..4
    THEN [type |-> CASE data[2] = 1 -> "*rsa.PublicKey"
                     [] data[2] = 2 -> "*ecdsa.PublicKey"
                     [] data[2] = 3 -> "ed25519.PublicKey"
                     [] data[2] = 4 -> "*dsa.PublicKey",
          pair |-> data[3], bits |-> CurveOfCode(data[4])]
    ELSE NilKey

\* crypto/x509 MarshalPKIXPublicKey of the public half of a parsed key
MarshalPKIXPublicKey(k) ==
    Der(fmtPKIX,
        CASE k.type \in {"*rsa.PublicKey", "*rsa.PrivateKey"} -> "rsa"
          [] k.type \in {"*ecdsa.PublicKey", "*ecdsa.PrivateKey"} -> "ecdsa",
        k.pair, k.bits)

\* the raw Ed25519 keys of a key pair: a 32 byte public key, and a 64 byte
\* private key that is the 32 byte seed followed by the public key
Ed25519Public(pair) == [i \in 1..32 |-> IF i = 1 THEN 224 + pair ELSE 0]
Ed25519Seed(pair) == [i \in 1..32 |-> IF i = 1 THEN 208 + pair ELSE 0]
Ed25519Private(pair) == Ed25519Seed(pair) \o Ed25519Public(pair)

\* the bytes of a parsed ed25519.PublicKey / ed25519.PrivateKey value
Ed25519Bytes(k) ==
    IF k.type = "ed25519.PrivateKey" THEN Ed25519Private(k.pair) ELSE Ed25519Public(k.pair)

parseKey(data) ==
    IF ParsePKCS8PrivateKey(data) # NilKey
    THEN [key |-> ParsePKCS8PrivateKey(data), err |-> NoError]
    ELSE IF ParsePKCS1PrivateKey(data) # NilKey
    THEN [key |-> ParsePKCS1PrivateKey(data), err |-> NoError]
    ELSE IF ParsePKIXPublicKey(data) # NilKey
    THEN [key |-> ParsePKIXPublicKey(data), err |-> NoError]
    ELSE [key |-> NilKey, err |-> ErrFailedPEMParsing]

\* a slip: the block is parsed without asking whether one was found
decodeAndParseUnchecked(pemBytes) ==
    LET data == pemDecode(pemBytes)
        r == parseKey(data.Bytes)
    IN  IF r.err # NoError
        THEN [data |-> pemDecode(EmptyString), key |-> NilKey, err |-> r.err, parsed |-> TRUE]
        ELSE [data |-> data, key |-> r.key, err |-> NoError, parsed |-> TRUE]

decodeAndParse(pemBytes) ==
    LET data == pemDecode(pemBytes) IN
    IF ~data.found
    THEN [data |-> data, key |-> NilKey, err |-> ErrNoPEMBlock, parsed |-> FALSE]
    ELSE LET r == parseKey(data.Bytes) IN
         IF r.err # NoError
         THEN [data |-> pemDecode(EmptyString), key |-> NilKey, err |-> r.err, parsed |-> TRUE]
         ELSE [data |-> data, key |-> r.key, err |-> NoError, parsed |-> TRUE]

\* --------------------------------------------------------------- Key model

\* the hex text of a digest, or the empty string of a Key never populated
EmptyKeyId == [digest |-> "none", of |-> <<>>]

EmptyKeyVal == [Private |-> EmptyString, Public |-> EmptyString]

\* the zero value of Key
EmptyKey ==
    [KeyId |-> EmptyKeyId, KeyIdHashAlgorithms |-> <<>>, KeyType |-> "",
     KeyVal |-> EmptyKeyVal, Scheme |-> ""]

\* the zero value of Signature
EmptySignature == [KeyId |-> EmptyKeyId, Sig |-> EmptyString]

\* canonical encoding of the partial key map: its members in key order
EncodeCanonical(keyToBeHashed) ==
    <<"keyid_hash_algorithms", keyToBeHashed.keyid_hash_algorithms,
      "keytype", keyToBeHashed.keytype,
      "keyval", <<"public", keyToBeHashed.keyval.public>>,
      "scheme", keyToBeHashed.scheme>>

\* fmt.Sprintf("%x", sha256.Sum256(data)): SHA-256 is taken to be injective
Sha256Hex(data) == [digest |-> "sha256", of |-> data]

\* validateKey: the key type is one of the three families, the scheme is one
\* of the family's schemes, the hash algorithm list is a non-empty subset of
\* the supported names
validateKey(k) ==
    IF /\ k.KeyType \in {rsaKeyType, ecdsaKeyType, ed25519KeyType}
       /\ k.Scheme \in (CASE k.KeyType = rsaKeyType -> getSupportedRSASchemes
                          [] k.KeyType = ecdsaKeyType -> getSupportedEcdsaSchemes
                          [] k.KeyType = ed25519KeyType -> getSupportedEd25519Schemes)
       /\ k.KeyIdHashAlgorithms # <<>>
       /\ RangeOf(k.KeyIdHashAlgorithms) \subseteq getSupportedKeyIdHashAlgorithms
    THEN NoError
    ELSE ErrInvalidKey

\* a slip: the private material is hashed as well
KeyIdOfWithPrivate(k) ==
    Sha256Hex(<<EncodeCanonical(
                  [keytype |-> k.KeyType, scheme |-> k.Scheme,
                   keyid_hash_algorithms |-> k.KeyIdHashAlgorithms,
                   keyval |-> [public |-> k.KeyVal.Public]]),
                "private", k.KeyVal.Private>>)

\* the identifier generateKeyID derives from the fields of k
KeyIdOf(k) ==
    Sha256Hex(EncodeCanonical(
        [keytype |-> k.KeyType, scheme |-> k.Scheme,
         keyid_hash_algorithms |-> k.KeyIdHashAlgorithms,
         keyval |-> [public |-> k.KeyVal.Public]]))

\* a slip: the key is validated before the identifier is stored
generateKeyIDValidateFirst(k) ==
    IF validateKey(k) # NoError
    THEN [k |-> k, err |-> validateKey(k)]
    ELSE [k |-> [k EXCEPT !.KeyId = KeyIdOf(k)], err |-> NoError]

\* Key.generateKeyID: the Key after the call, and the error returned
generateKeyID(k) ==
    LET k1 == [k EXCEPT !.KeyId = KeyIdOf(k)] IN
    [k |-> k1, err |-> validateKey(k1)]

\* the KeyVal the switch of setKeyComponents builds for a supported key type
KeyValFor(pubKeyBytes, privateKeyBytes, keyType) ==
    CASE keyType = rsaKeyType ->
           IF Len(privateKeyBytes) > 0
           THEN [Private |-> TrimSpace(generatePEMBlock(privateKeyBytes, pemRSAPrivateKey)),
                 Public |-> TrimSpace(generatePEMBlock(pubKeyBytes, pemPublicKey))]
           ELSE [Private |-> EmptyString,
                 Public |-> TrimSpace(generatePEMBlock(pubKeyBytes, pemPublicKey))]
      [] keyType = ecdsaKeyType ->
           IF Len(privateKeyBytes) > 0
           THEN [Private |-> TrimSpace(generatePEMBlock(privateKeyBytes, pemPrivateKey)),
                 Public |-> TrimSpace(generatePEMBlock(pubKeyBytes, pemPublicKey))]
           ELSE [Private |-> EmptyString,
                 Public |-> TrimSpace(generatePEMBlock(pubKeyBytes, pemPublicKey))]
      [] keyType = ed25519KeyType ->
           IF Len(privateKeyBytes) > 0
           THEN [Private |-> TrimSpace(hexEncodeToString(privateKeyBytes)),
                 Public |-> TrimSpace(hexEncodeToString(pubKeyBytes))]
           ELSE [Private |-> EmptyString,
                 Public |-> TrimSpace(hexEncodeToString(pubKeyBytes))]

\* a slip: the key type is stored before it is looked at
setKeyComponentsTypeFirst(k, pubKeyBytes, privateKeyBytes, keyType, scheme, keyIdHashAlgorithms) ==
    IF keyType \notin {rsaKeyType, ecdsaKeyType, ed25519KeyType}
    THEN [k |-> [k EXCEPT !.KeyType = keyType], err |-> ErrUnsupportedKeyType]
    ELSE generateKeyID([k EXCEPT !.KeyVal = KeyValFor(pubKeyBytes, privateKeyBytes, keyType),
                                 !.KeyType = keyType,
                                 !.Scheme = scheme,
                                 !.KeyIdHashAlgorithms = keyIdHashAlgorithms])

\* Key.setKeyComponents: the Key after the call, and the error returned
setKeyComponents(k, pubKeyBytes, privateKeyBytes, keyType, scheme, keyIdHashAlgorithms) ==
    IF keyType \notin {rsaKeyType, ecdsaKeyType, ed25519KeyType}
    THEN [k |-> k, err |-> ErrUnsupportedKeyType]
    ELSE generateKeyID([k EXCEPT !.KeyVal = KeyValFor(pubKeyBytes, privateKeyBytes, keyType),
                                 !.KeyType = keyType,
                                 !.Scheme = scheme,
                                 !.KeyIdHashAlgorithms = keyIdHashAlgorithms])

\* readers: nil, one whose Read fails, or one that yields a text
NilReader == [kind |-> "nil", text |-> EmptyString]
BrokenReader == [kind |-> "broken", text |-> EmptyString]
DataReader(text) == [kind |-> "data", text |-> text]

\* Key.LoadKeyReader: the Key after the call, and the error returned
LoadKeyReader(k, r, scheme, keyIdHashAlgorithms) ==
    IF r.kind = "nil" THEN [k |-> k, err |-> ErrNoPEMBlock]
    ELSE IF r.kind = "broken" THEN [k |-> k, err |-> ErrRead]
    ELSE
    LET dp == decodeAndParse(r.text)
        pemData == dp.data
        parsed == dp.key
    IN  IF dp.err # NoError THEN [k |-> k, err |-> dp.err]
        ELSE CASE parsed.type = "*rsa.PublicKey" ->
                    setKeyComponents(k, MarshalPKIXPublicKey(parsed), <<>>,
                                     rsaKeyType, scheme, keyIdHashAlgorithms)
               [] parsed.type = "*rsa.PrivateKey" ->
                    setKeyComponents(k, MarshalPKIXPublicKey(parsed), pemData.Bytes,
                                     rsaKeyType, scheme, keyIdHashAlgorithms)
               [] parsed.type = "ed25519.PublicKey" ->
                    setKeyComponents(k, Ed25519Bytes(parsed), <<>>,
                                     ed25519KeyType, scheme, keyIdHashAlgorithms)
               [] parsed.type = "ed25519.PrivateKey" ->
                    setKeyComponents(k, Ed25519Public(parsed.pair), Ed25519Bytes(parsed),
                                     ed25519KeyType, scheme, keyIdHashAlgorithms)
               [] parsed.type = "*ecdsa.PrivateKey" ->
                    setKeyComponents(k, MarshalPKIXPublicKey(parsed), pemData.Bytes,
                                     ecdsaKeyType, scheme, keyIdHashAlgorithms)
               [] parsed.type = "*ecdsa.PublicKey" ->
                    setKeyComponents(k, MarshalPKIXPublicKey(parsed), <<>>,
                                     ecdsaKeyType, scheme, keyIdHashAlgorithms)
               [] OTHER -> [k |-> k, err |-> Panic]

\* ------------------------------------------------------ scheme registry

\* matchEcdsaScheme: the curve size the scheme names is the size of the curve
matchEcdsaScheme(curveSize, scheme) ==
    IF \/ curveSize = 224 /\ scheme = ecdsaSha2nistp224
       \/ curveSize = 256 /\ scheme = "ecdsa-sha2-nistp256"
       \/ curveSize = 384 /\ scheme = ecdsaSha2nistp384
       \/ curveSize = 521 /\ scheme = ecdsaSha2nistp521
    THEN NoError
    ELSE ErrCurveSizeSchemeMismatch

\* hashToHex(getHashMapping()[name](), data): the digest of data; the hash
\* functions are taken to be injective and their ranges disjoint
hashToHex(name, data) ==
    <<CASE name = "sha256" -> 1 [] name = "sha384" -> 2 [] name = "sha512" -> 3>> \o data

\* the hash the curve size selects (RFC 5656, section 6.2.1)
EcdsaHashName(curveSize) ==
    IF curveSize <= 256 THEN "sha256"
    ELSE IF 256 < curveSize /\ curveSize <= 384 THEN "sha384"
    ELSE "sha512"

\* -------------------------------------------------------------- primitives

\* what crypto/rand yields for a salt or a nonce
RandomValues == {1, 2}

\* rsa.SignPSS: the signature of a digest under a private key and a salt
rsaSignPSS(priv, hashed, salt) == <<160 + priv.pair, salt>> \o hashed

\* rsa.VerifyPSS: TRUE when sig signs the digest under the key pair of pub
rsaVerifyPSS(pub, hashed, sig) ==
    /\ Len(sig) >= 2
    /\ sig[1] = 160 + pub.pair
    /\ sig[2] \in RandomValues
    /\ SubSeq(sig, 3, Len(sig)) = hashed

\* ecdsa.Sign: the components (r, s), big-endian, for a nonce
ecdsaSign(priv, hashed, nonce) ==
    [R |-> <<nonce>>, S |-> <<16 + priv.pair, CurveCode(priv.bits), nonce>> \o hashed]

\* ecdsa.Verify
ecdsaVerify(pub, hashed, r, s) ==
    /\ Len(r) = 1
    /\ r[1] \in RandomValues
    /\ s = <<16 + pub.pair, CurveCode(pub.bits), r[1]>> \o hashed

\* asn1.Marshal of EcdsaSignature{R, S}: SEQUENCE { INTEGER, INTEGER }
asn1Marshal(sig) ==
    <<48, 4 + Len(sig.R) + Len(sig.S), 2, Len(sig.R)>> \o sig.R \o <<2, Len(sig.S)>> \o sig.S

\* encoding/asn1 checkInteger: not empty, minimally encoded
checkInteger(bytes) ==
    /\ Len(bytes) >= 1
    /\ Len(bytes) >= 2 =>
         /\ ~(bytes[1] = 0 /\ bytes[2] < 128)
         /\ ~(bytes[1] = 255 /\ bytes[2] >= 128)

\* the INTEGER at the head of data: its content and what follows it
ParseInteger(data) ==
    IF /\ Len(data) >= 2
       /\ data[1] = 2
       /\ data[2] < 128
       /\ Len(data) >= 2 + data[2]
       /\ checkInteger(SubSeq(data, 3, 2 + data[2]))
    THEN [ok |-> TRUE, int |-> SubSeq(data, 3, 2 + data[2]),
          rest |-> SubSeq(data, 3 + data[2], Len(data))]
    ELSE [ok |-> FALSE, int |-> <<>>, rest |-> <<>>]

\* asn1.Unmarshal into an EcdsaSignature: bytes after the SEQUENCE and
\* elements after the second INTEGER are skipped
asn1Unmarshal(bytes) ==
    IF ~(/\ Len(bytes) >= 2
         /\ bytes[1] = 48
         /\ bytes[2] < 128
         /\ Len(bytes) >= 2 + bytes[2])
    THEN [ok |-> FALSE, R |-> <<>>, S |-> <<>>]
    ELSE LET first == ParseInteger(SubSeq(bytes, 3, 2 + bytes[2]))
             second == ParseInteger(first.rest)
         IN  IF first.ok /\ second.ok
             THEN [ok |-> TRUE, R |-> first.int, S |-> second.int]
             ELSE [ok |-> FALSE, R |-> <<>>, S |-> <<>>]

\* ed25519.Sign panics unless the private key is 64 bytes long
ed25519SignPanics(privateKey) == Len(privateKey) # 64

\* ed25519.Sign: the signature of a message under seed and public half
ed25519Sign(privateKey, message) == <<privateKey[1], privateKey[33]>> \o message

\* ed25519.Verify panics unless the public key is 32 bytes long
ed25519VerifyPanics(publicKey) == Len(publicKey) # 32

\* ed25519.Verify
ed25519Verify(publicKey, message, sig) ==
    /\ Len(sig) >= 2
    /\ sig[1] = publicKey[1] - 16
    /\ sig[2] = publicKey[1]
    /\ SubSeq(sig, 3, Len(sig)) = message

\* ------------------------------------------------------------------ signer

\* what a call returns: the Signature, the error (Panic when it does not
\* return), the steps it took in order, and the step that failed, if any
Ret(sig, err, steps, fault) == [sig |-> sig, err |-> err, steps |-> steps, fault |-> fault]

\* the end of GenerateSignature: the hex text of the buffer and the key id
Finish(signatureBuffer, k, steps) ==
    Ret([KeyId |-> k.KeyId, Sig |-> hexEncodeToString(signatureBuffer)], NoError,
        steps \o <<"hex.EncodeToString">>, "")

\* a slip: the type assertion on the parsed key is left out
signRsaUnasserted(signable, k, env) ==
    LET dp == decodeAndParse(k.KeyVal.Private) IN
    IF dp.err # NoError
    THEN Ret(EmptySignature, dp.err, <<"decodeAndParse">>, "decodeAndParse")
    ELSE IF env.fail
    THEN Ret(EmptySignature, ErrRsaSign, <<"decodeAndParse", "hashToHex", "rsa.SignPSS">>,
             "rsa.SignPSS")
    ELSE Finish(rsaSignPSS(dp.key, hashToHex("sha256", signable), env.rand), k,
                <<"decodeAndParse", "hashToHex", "rsa.SignPSS">>)

\* GenerateSignature, case rsaKeyType
signRsa(signable, k, env) ==
    LET dp == decodeAndParse(k.KeyVal.Private) IN
    IF dp.err # NoError
    THEN Ret(EmptySignature, dp.err, <<"decodeAndParse">>, "decodeAndParse")
    ELSE IF dp.key.type # "*rsa.PrivateKey"
    THEN Ret(EmptySignature, ErrKeyKeyTypeMismatch, <<"decodeAndParse", "typeAssertion">>,
             "typeAssertion")
    ELSE IF k.Scheme # rsassapsssha256Scheme
    THEN Ret(EmptySignature, Panic, <<"decodeAndParse", "typeAssertion">>, "scheme")
    ELSE IF env.fail
    THEN Ret(EmptySignature, ErrRsaSign,
             <<"decodeAndParse", "typeAssertion", "hashToHex", "rsa.SignPSS">>, "rsa.SignPSS")
    ELSE Finish(rsaSignPSS(dp.key, hashToHex("sha256", signable), env.rand), k,
                <<"decodeAndParse", "typeAssertion", "hashToHex", "rsa.SignPSS">>)

\* a slip: the curve of the key is not matched against the scheme
signEcdsaUnmatched(signable, k, env) ==
    LET dp == decodeAndParse(k.KeyVal.Private)
        curveSize == dp.key.bits
        hashed == hashToHex(EcdsaHashName(curveSize), signable)
    IN  IF dp.err # NoError
        THEN Ret(EmptySignature, dp.err, <<"decodeAndParse">>, "decodeAndParse")
        ELSE IF dp.key.type # "*ecdsa.PrivateKey"
        THEN Ret(EmptySignature, ErrKeyKeyTypeMismatch, <<"decodeAndParse", "typeAssertion">>,
                 "typeAssertion")
        ELSE IF env.fail
        THEN Ret(EmptySignature, NoError,
                 <<"decodeAndParse", "typeAssertion", "hashToHex", "ecdsa.Sign">>, "ecdsa.Sign")
        ELSE Finish(asn1Marshal(ecdsaSign(dp.key, hashed, env.rand)), k,
                    <<"decodeAndParse", "typeAssertion", "hashToHex", "ecdsa.Sign",
                      "asn1.Marshal">>)

\* GenerateSignature, case ecdsaKeyType; an error of ecdsa.Sign is answered
\* with "return signature, nil"
signEcdsa(signable, k, env) ==
    LET dp == decodeAndParse(k.KeyVal.Private)
        curveSize == dp.key.bits
        hashed == hashToHex(EcdsaHashName(curveSize), signable)
    IN  IF dp.err # NoError
        THEN Ret(EmptySignature, dp.err, <<"decodeAndParse">>, "decodeAndParse")
        ELSE IF dp.key.type # "*ecdsa.PrivateKey"
        THEN Ret(EmptySignature, ErrKeyKeyTypeMismatch, <<"decodeAndParse", "typeAssertion">>,
                 "typeAssertion")
        ELSE IF matchEcdsaScheme(curveSize, k.Scheme) # NoError
        THEN Ret(EmptySignature, ErrCurveSizeSchemeMismatch,
                 <<"decodeAndParse", "typeAssertion", "matchEcdsaScheme">>, "matchEcdsaScheme")
        ELSE IF env.fail
        THEN Ret(EmptySignature, NoError,
                 <<"decodeAndParse", "typeAssertion", "matchEcdsaScheme", "hashToHex",
                   "ecdsa.Sign">>, "ecdsa.Sign")
        ELSE Finish(asn1Marshal(ecdsaSign(dp.key, hashed, env.rand)), k,
                    <<"decodeAndParse", "typeAssertion", "matchEcdsaScheme", "hashToHex",
                      "ecdsa.Sign", "asn1.Marshal">>)

\* GenerateSignature, case ed25519KeyType
signEd25519(signable, k, env) ==
    LET privateHex == hexDecodeString(k.KeyVal.Private) IN
    IF ~privateHex.ok
    THEN Ret(EmptySignature, ErrInvalidHexString, <<"hex.DecodeString(key)">>,
             "hex.DecodeString(key)")
    ELSE IF ed25519SignPanics(privateHex.bytes)
    THEN Ret(EmptySignature, Panic, <<"hex.DecodeString(key)", "ed25519.Sign">>, "ed25519.Sign")
    ELSE Finish(ed25519Sign(privateHex.bytes, signable), k,
                <<"hex.DecodeString(key)", "ed25519.Sign">>)

\* the switch of GenerateSignature on key.KeyType
signSwitch(signable, k, env) ==
    CASE k.KeyType = rsaKeyType -> signRsa(signable, k, env)
      [] k.KeyType = ecdsaKeyType -> signEcdsa(signable, k, env)
      [] k.KeyType = ed25519KeyType -> signEd25519(signable, k, env)
      [] OTHER -> Ret(EmptySignature, Panic, <<>>, "keytype")

\* the steps of r after the step "validateKey"
AfterValidate(r) == [r EXCEPT !.steps = <<"validateKey">> \o r.steps]

\* a slip: the key is not validated before it is used
GenerateSignatureUnvalidated(signable, k, env) == signSwitch(signable, k, env)

\* GenerateSignature(signable, key); env holds what the random source yields
\* and whether the signing primitive reports an error
GenerateSignature(signable, k, env) ==
    IF validateKey(k) # NoError
    THEN Ret(EmptySignature, validateKey(k), <<"validateKey">>, "validateKey")
    ELSE AfterValidate(signSwitch(signable, k, env))

\* ---------------------------------------------------------------- verifier

\* VerifySignature, case rsaKeyType
verifyRsa(k, sigBytes, unverified) ==
    LET dp == decodeAndParse(k.KeyVal.Public) IN
    IF dp.err # NoError
    THEN Ret(EmptySignature, dp.err, <<"decodeAndParse">>, "decodeAndParse")
    ELSE IF dp.key.type # "*rsa.PublicKey"
    THEN Ret(EmptySignature, ErrKeyKeyTypeMismatch, <<"decodeAndParse", "typeAssertion">>,
             "typeAssertion")
    ELSE IF k.Scheme # rsassapsssha256Scheme
    THEN Ret(EmptySignature, Panic, <<"decodeAndParse", "typeAssertion">>, "scheme")
    ELSE IF ~rsaVerifyPSS(dp.key, hashToHex("sha256", unverified), sigBytes)
    THEN Ret(EmptySignature, ErrInvalidSignature,
             <<"decodeAndParse", "typeAssertion", "hashToHex", "rsa.VerifyPSS">>,
             "rsa.VerifyPSS")
    ELSE Ret(EmptySignature, NoError,
             <<"decodeAndParse", "typeAssertion", "hashToHex", "rsa.VerifyPSS">>, "")

\* VerifySignature, case ecdsaKeyType
verifyEcdsa(k, sigBytes, unverified) ==
    LET dp == decodeAndParse(k.KeyVal.Public)
        curveSize == dp.key.bits
        hashed == hashToHex(EcdsaHashName(curveSize), unverified)
        ecdsaSignature == asn1Unmarshal(sigBytes)
    IN  IF dp.err # NoError
        THEN Ret(EmptySignature, dp.err, <<"decodeAndParse">>, "decodeAndParse")
        ELSE IF dp.key.type # "*ecdsa.PublicKey"
        THEN Ret(EmptySignature, ErrKeyKeyTypeMismatch, <<"decodeAndParse", "typeAssertion">>,
                 "typeAssertion")
        ELSE IF matchEcdsaScheme(curveSize, k.Scheme) # NoError
        THEN Ret(EmptySignature, ErrCurveSizeSchemeMismatch,
                 <<"decodeAndParse", "typeAssertion", "matchEcdsaScheme">>, "matchEcdsaScheme")
        ELSE IF ~ecdsaSignature.ok
        THEN Ret(EmptySignature, ErrAsn1,
                 <<"decodeAndParse", "typeAssertion", "matchEcdsaScheme", "hashToHex",
                   "asn1.Unmarshal">>, "asn1.Unmarshal")
        ELSE IF ~ecdsaVerify(dp.key, hashed, ecdsaSignature.R, ecdsaSignature.S)
        THEN Ret(EmptySignature, ErrInvalidSignature,
                 <<"decodeAndParse", "typeAssertion", "matchEcdsaScheme", "hashToHex",
                   "asn1.Unmarshal", "ecdsa.Verify">>, "ecdsa.Verify")
        ELSE Ret(EmptySignature, NoError,
                 <<"decodeAndParse", "typeAssertion", "matchEcdsaScheme", "hashToHex",
                   "asn1.Unmarshal", "ecdsa.Verify">>, "")

\* a slip: the answer of ed25519.Verify is not looked at
verifyEd25519Unchecked(k, sigBytes, unverified) ==
    LET pubHex == hexDecodeString(k.KeyVal.Public) IN
    IF ~pubHex.ok
    THEN Ret(EmptySignature, ErrInvalidHexString, <<"hex.DecodeString(key)">>,
             "hex.DecodeString(key)")
    ELSE IF ed25519VerifyPanics(pubHex.bytes)
    THEN Ret(EmptySignature, Panic, <<"hex.DecodeString(key)", "ed25519.Verify">>,
             "ed25519.Verify")
    ELSE Ret(EmptySignature, NoError, <<"hex.DecodeString(key)", "ed25519.Verify">>, "")

\* VerifySignature, case ed25519KeyType
verifyEd25519(k, sigBytes, unverified) ==
    LET pubHex == hexDecodeString(k.KeyVal.Public) IN
    IF ~pubHex.ok
    THEN Ret(EmptySignature, ErrInvalidHexString, <<"hex.DecodeString(key)">>,
             "hex.DecodeString(key)")
    ELSE IF ed25519VerifyPanics(pubHex.bytes)
    THEN Ret(EmptySignature, Panic, <<"hex.DecodeString(key)", "ed25519.Verify">>,
             "ed25519.Verify")
    ELSE IF ~ed25519Verify(pubHex.bytes, unverified, sigBytes)
    THEN Ret(EmptySignature, ErrInvalidSignature, <<"hex.DecodeString(key)", "ed25519.Verify">>,
             "ed25519.Verify")
    ELSE Ret(EmptySignature, NoError, <<"hex.DecodeString(key)", "ed25519.Verify">>, "")

\* VerifySignature(key, sig, unverified)
VerifySignature(k, sig, unverified) ==
    IF validateKey(k) # NoError
    THEN Ret(EmptySignature, validateKey(k), <<"validateKey">>, "validateKey")
    ELSE LET sigBytes == hexDecodeString(sig.Sig) IN
         IF ~sigBytes.ok
         THEN Ret(EmptySignature, ErrHexDecode, <<"validateKey", "hex.DecodeString(sig)">>,
                  "hex.DecodeString(sig)")
         ELSE LET r == CASE k.KeyType = rsaKeyType -> verifyRsa(k, sigBytes.bytes, unverified)
                         [] k.KeyType = ecdsaKeyType ->
                              verifyEcdsa(k, sigBytes.bytes, unverified)
                         [] k.KeyType = ed25519KeyType ->
                              verifyEd25519(k, sigBytes.bytes, unverified)
                         [] OTHER -> Ret(EmptySignature, Panic, <<>>, "keytype")
              IN  [r EXCEPT !.steps = <<"validateKey", "hex.DecodeString(sig)">> \o r.steps]

\* ------------------------------------------------------------------ inputs

\* byte strings of length 0..n over a set of byte values
RECURSIVE BytesUpTo(_, _)
BytesUpTo(values, n) ==
    IF n = 0 THEN {<<>>}
    ELSE BytesUpTo(values, n - 1)
           \cup {Append(b, v) : b \in {x \in BytesUpTo(values, n - 1) : Len(x) = n - 1},
                                v \in values}

PayloadBytes == {0, 1}
Payloads == BytesUpTo(PayloadBytes, MaxPayloadLen)

\* DER bytes that parse as none of the three formats
JunkDer == <<9>>

\* <<public key bytes, private key bytes>> handed to setKeyComponents: the
\* two halves of a key pair, a public key alone, and private bytes that are
\* a public key, a bare Ed25519 seed, or no key at all
MaterialPairs ==
    UNION {
        {<<Der(fmtPKIX, "rsa", p, 0), Der(fmtPKCS8, "rsa", p, 0)>>,
         <<Der(fmtPKIX, "rsa", p, 0), Der(fmtPKCS1, "rsa", p, 0)>>,
         <<Der(fmtPKIX, "rsa", p, 0), <<>>>>,
         <<Der(fmtPKIX, "rsa", p, 0), Der(fmtPKIX, "rsa", p, 0)>>,
         <<Der(fmtPKIX, "rsa", p, 0), JunkDer>>,
         <<Ed25519Public(p), Ed25519Private(p)>>,
         <<Ed25519Public(p), Ed25519Seed(p)>>,
         <<Ed25519Public(p), <<>>>>,
         <<Der(fmtPKIX, "dsa", p, 0), <<>>>>}
        \cup {<<Der(fmtPKIX, "ecdsa", p, c), Der(fmtPKCS8, "ecdsa", p, c)>> : c \in CurveSizes}
        \cup {<<Der(fmtPKIX, "ecdsa", p, c), <<>>>> : c \in CurveSizes}
        : p \in Pairs}

\* the two halves of one key pair of each family
MatchingPairs ==
    UNION {{<<Der(fmtPKIX, "rsa", p, 0), Der(fmtPKCS8, "rsa", p, 0)>>,
            <<Der(fmtPKIX, "ecdsa", p, 384), Der(fmtPKCS8, "ecdsa", p, 384)>>,
            <<Ed25519Public(p), Ed25519Private(p)>>,
            <<Ed25519Public(p), <<>>>>} : p \in Pairs}

KeyTypeInputs == {rsaKeyType, ecdsaKeyType, ed25519KeyType, "dsa"}

SchemeInputs ==
    getSupportedRSASchemes \cup getSupportedEcdsaSchemes \cup getSupportedEd25519Schemes

\* the schemes handed to the populate operations
PopulateSchemes == {rsassapsssha256Scheme, ecdsaSha2nistp384, ed25519Scheme}

SupportedHashAlgorithms == <<"sha256", "sha512">>

HashAlgorithmInputs == {SupportedHashAlgorithms, <<>>, <<"md5">>}

\* what a reader yields: key files, text that is no PEM block, nothing
FileTexts ==
    {PemText(pemPrivateKey, Der(fmtPKCS8, a, p, 0)) : a \in {"rsa", "ed25519"}, p \in Pairs}
    \cup {PemText(pemPublicKey, Der(fmtPKIX, a, p, 0)) : a \in {"rsa", "ed25519", "dsa"},
                                                        p \in Pairs}
    \cup {PemText("RSA PRIVATE KEY", Der(fmtPKCS1, "rsa", p, 0)) : p \in Pairs}
    \cup {PemText(pemPrivateKey, Der(fmtPKCS8, "ecdsa", p, 384)) : p \in Pairs}
    \cup {PemText(pemPublicKey, Der(fmtPKIX, "ecdsa", p, 384)) : p \in Pairs}
    \cup {PemText(pemPublicKey, JunkDer), Str(<<"n", "o">>), EmptyString}

Readers == {NilReader, BrokenReader} \cup {DataReader(t) : t \in FileTexts}

\* the Keys handed to GenerateSignature and VerifySignature: the zero Key and
\* Keys as setKeyComponents leaves them, whatever it returned: every material
\* under every key type with each of its schemes, and matching material under
\* the other schemes and under unsupported hash algorithm lists
KeyInputs ==
    {EmptyKey}
    \cup {setKeyComponents(EmptyKey, m[1], m[2], ts[1], ts[2], SupportedHashAlgorithms).k :
            m \in MaterialPairs,
            ts \in {x \in {rsaKeyType, ecdsaKeyType, ed25519KeyType} \X SchemeInputs :
                      validateKey([EmptyKey EXCEPT !.KeyType = x[1], !.Scheme = x[2],
                                     !.KeyIdHashAlgorithms = SupportedHashAlgorithms])
                        = NoError}}
    \cup {setKeyComponents(EmptyKey, m[1], m[2], t, s, a).k :
            m \in MatchingPairs, t \in {rsaKeyType, ecdsaKeyType, ed25519KeyType},
            s \in SchemeInputs, a \in HashAlgorithmInputs}

\* the random source and the outcome of the signing primitive
Envs == [rand : RandomValues, fail : BOOLEAN]

\* public key texts of other keys, to put in the place of a Key's own
PublicTexts ==
    {PemText(pemPublicKey, Der(fmtPKIX, "rsa", p, 0)) : p \in 1..(NumPairs + 1)}
    \cup {PemText(pemPublicKey, Der(fmtPKIX, "ecdsa", p, c)) :
            p \in 1..(NumPairs + 1), c \in {224, 384}}
    \cup {hexEncodeToString(Ed25519Public(p)) : p \in 1..(NumPairs + 1)}

\* the characters written over character c of a signature text: the same
\* letter in the other case, another hex digit, and no hex digit
TamperChars(c) ==
    {"g", IF c = "7" THEN "0" ELSE "7"}
    \cup {UpperDigits[n] : n \in {x \in 11..16 : LowerDigits[x] = c}}
    \cup {LowerDigits[n] : n \in {x \in 11..16 : UpperDigits[x] = c}}

\* signatures handed to VerifySignature that no key made
ProbeSignatures ==
    {[KeyId |-> EmptyKeyId, Sig |-> t] : t \in {EmptyString, Str(<<"0", "1">>), Str(<<"z", "z">>)}}

\* ------------------------------------------------------------------- state

\* key: the Key object the populate operations act on, and the Key handed
\*      to GenerateSignature and VerifySignature
\* signed: the last GenerateSignature call that returned a nil error
\* last: the last call, its arguments and what it returned

NotSigned == [done |-> FALSE, key |-> EmptyKey, payload |-> <<>>, sig |-> EmptySignature]

NoRet == Ret(EmptySignature, NoError, <<>>, "")

\* a call: k, payload and sigIn are the arguments of GenerateSignature and
\* VerifySignature, keyType that of setKeyComponents (of LoadKeyReader, the
\* kind of reader), tamper how the arguments differ from what was signed
Call(op, k, keyType, payload, sigIn, tamper, r) ==
    [op |-> op, key |-> k, keyType |-> keyType, payload |-> payload, sigIn |-> sigIn,
     tamper |-> tamper, sig |-> r.sig, err |-> r.err, steps |-> r.steps, fault |-> r.fault]

NoCall == Call("none", EmptyKey, "", <<>>, EmptySignature, "none", NoRet)

\* the same Key without its private material
PublicOnly(k) == [k EXCEPT !.KeyVal.Private = EmptyString]

\* k.setKeyComponents(pubKeyBytes, privateKeyBytes, keyType, scheme, algs)
SetKeyComponents ==
    \E m \in MatchingPairs, keyType \in KeyTypeInputs, scheme \in PopulateSchemes,
       algs \in HashAlgorithmInputs :
        LET r == setKeyComponents(key, m[1], m[2], keyType, scheme, algs) IN
        /\ key' = r.k
        /\ last' = Call("setKeyComponents", EmptyKey, keyType, <<>>, EmptySignature, "none",
                        Ret(EmptySignature, r.err, <<>>, ""))
        /\ UNCHANGED signed

\* k.LoadKeyReader(r, scheme, algs), and k.LoadKey of a file that opens
LoadKey ==
    \E reader \in Readers, scheme \in PopulateSchemes, algs \in HashAlgorithmInputs :
        LET r == LoadKeyReader(key, reader, scheme, algs) IN
        /\ key' = r.k
        /\ last' = Call("LoadKeyReader", EmptyKey, reader.kind, <<>>, EmptySignature, "none",
                        Ret(EmptySignature, r.err, <<>>, ""))
        /\ UNCHANGED signed

\* GenerateSignature(payload, key)
Sign ==
    \E payload \in Payloads, env \in Envs :
        LET r == GenerateSignature(payload, key, env) IN
        /\ last' = Call("GenerateSignature", key, "", payload, EmptySignature, "none", r)
        /\ signed' = IF r.err = NoError
                     THEN [done |-> TRUE, key |-> key, payload |-> payload, sig |-> r.sig]
                     ELSE NotSigned
        /\ UNCHANGED key

VerifyCall(k, sig, payload, tamper) ==
    /\ last' = Call("VerifySignature", k, "", payload, sig, tamper,
                    VerifySignature(k, sig, payload))
    /\ UNCHANGED <<key, signed>>

\* VerifySignature of what was signed, with the public-only view of the Key
VerifySigned ==
    /\ signed.done
    /\ VerifyCall(PublicOnly(signed.key), signed.sig, signed.payload, "none")

\* ... with one byte of the payload changed
VerifyTamperedPayload ==
    /\ signed.done
    /\ \E i \in DOMAIN signed.payload : \E b \in PayloadBytes \ {signed.payload[i]} :
          VerifyCall(PublicOnly(signed.key), signed.sig,
                     [signed.payload EXCEPT ![i] = b], "payload")

\* ... with one character of signature.sig changed
VerifyTamperedSig ==
    /\ signed.done
    /\ \E i \in DOMAIN signed.sig.Sig.chars : \E c \in TamperChars(signed.sig.Sig.chars[i]) :
          VerifyCall(PublicOnly(signed.key),
                     [signed.sig EXCEPT !.Sig = Str([signed.sig.Sig.chars EXCEPT ![i] = c])],
                     signed.payload, "sig")

\* ... with the public material of another key
VerifyOtherPublic ==
    /\ signed.done
    /\ \E t \in PublicTexts \ {signed.key.KeyVal.Public} :
          VerifyCall([PublicOnly(signed.key) EXCEPT !.KeyVal.Public = t],
                     signed.sig, signed.payload, "public")

\* VerifySignature of a signature that no key made
VerifyProbe ==
    /\ ~signed.done
    /\ \E sig \in ProbeSignatures : VerifyCall(key, sig, <<1>>, "probe")

\* signing and verifying with a Key that was populated before
Init ==
    /\ key \in KeyInputs
    /\ signed = NotSigned
    /\ last = NoCall

Next ==
    \/ Sign
    \/ VerifySigned
    \/ VerifyTamperedPayload
    \/ VerifyTamperedSig
    \/ VerifyOtherPublic
    \/ VerifyProbe

Spec == Init /\ [][Next]_vars

\* populating a Key that was created empty
InitKey ==
    /\ key = EmptyKey
    /\ signed = NotSigned
    /\ last = NoCall

NextKey ==
    \/ SetKeyComponents
    \/ LoadKey

SpecKey == InitKey /\ [][NextKey]_vars

\* a second Key object, created empty and populated with the key type, scheme
\* and hash algorithm list of the first and with any material; last.key is
\* the second Key after the call
SetKeyComponentsSecond ==
    \E m \in MaterialPairs :
        LET r == setKeyComponents(EmptyKey, m[1], m[2], key.KeyType, key.Scheme,
                                  key.KeyIdHashAlgorithms) IN
        /\ last' = Call("setKeyComponents", r.k, key.KeyType, <<>>, EmptySignature, "second",
                        Ret(EmptySignature, r.err, <<>>, ""))
        /\ UNCHANGED <<key, signed>>

\* ... populated from a reader with the scheme and hash algorithm list of the
\* first
LoadKeySecond ==
    \E reader \in Readers :
        LET r == LoadKeyReader(EmptyKey, reader, key.Scheme, key.KeyIdHashAlgorithms) IN
        /\ last' = Call("LoadKeyReader", r.k, reader.kind, <<>>, EmptySignature, "second",
                        Ret(EmptySignature, r.err, <<>>, ""))
        /\ UNCHANGED <<key, signed>>

\* two Key objects: one populated before, one populated now
InitTwoKeys ==
    /\ key \in KeyInputs
    /\ signed = NotSigned
    /\ last = NoCall

NextTwoKeys ==
    \/ SetKeyComponentsSecond
    \/ LoadKeySecond

SpecTwoKeys == InitTwoKeys /\ [][NextTwoKeys]_vars

\* ------------------------------------------------------------------ claims

Families == {rsaKeyType, ecdsaKeyType, ed25519KeyType}

\* the scheme set of a key family
SchemeSetOf(keyType) ==
    CASE keyType = rsaKeyType -> {"rsassa-pss-sha256"}
      [] keyType = ecdsaKeyType ->
           {"ecdsa-sha2-nistp224", "ecdsa-sha2-nistp384", "ecdsa-sha2-nistp521"}
      [] keyType = ed25519KeyType -> {"ed25519"}
      [] OTHER -> {}

\* the curve size a scheme names
SchemeCurve(scheme) ==
    CASE scheme = "ecdsa-sha2-nistp224" -> 224
      [] scheme = "ecdsa-sha2-nistp384" -> 384
      [] scheme = "ecdsa-sha2-nistp521" -> 521
      [] OTHER -> 0

IsSign == last.op = "GenerateSignature"
IsVerify == last.op = "VerifySignature"

Took(step) == \E i \in DOMAIN last.steps : last.steps[i] = step

\* the Key of the last call passes validation
ValidKey == validateKey(last.key) = NoError

\* C1: GenerateSignature and VerifySignature called with a Key whose scheme
\* is not in the scheme set of its key type return the validation error, and
\* validating the key is the only step they take
C1_CrossFamilyRejection ==
    (/\ IsSign \/ IsVerify
     /\ last.key.KeyType \in Families
     /\ last.key.Scheme \notin SchemeSetOf(last.key.KeyType))
    => /\ last.err = ErrInvalidKey
       /\ last.steps = <<"validateKey">>

C1_Witness ==
    /\ IsSign
    /\ last.key.KeyType = rsaKeyType
    /\ last.key.Scheme = ed25519Scheme
    /\ pemDecode(last.key.KeyVal.Private).found
    /\ last.err = ErrInvalidKey

\* C2: a signature GenerateSignature returned without an error, over a
\* payload that is not empty, verifies under the public-only view of the Key
C2_RoundTrip ==
    (/\ IsVerify
     /\ last.tamper = "none"
     /\ signed.payload # <<>>)
    => last.err = NoError

\* C3: with a valid Key whose private field is the empty string,
\* GenerateSignature returns the key type mismatch error
C3_EmptyPrivateKey ==
    (/\ IsSign
     /\ ValidKey
     /\ last.key.KeyVal.Private = EmptyString)
    => last.err = ErrKeyKeyTypeMismatch

\* what was signed verifies under the public-only view of its Key
SignedVerifies ==
    /\ signed.done
    /\ VerifySignature(PublicOnly(signed.key), signed.sig, signed.payload).err = NoError

Tampered == IsVerify /\ last.tamper \in {"payload", "sig", "public"} /\ SignedVerifies

\* C4 as stated: from a triple that verifies, a changed byte of the payload
\* or of signature.sig, or the public material of another key, makes
\* VerifySignature return the invalid signature error
C4_TamperInvalidSignature == Tampered => last.err = ErrInvalidSignature

\* C4 as amended: from a triple that verifies, VerifySignature does not
\* panic; with a changed payload byte it returns the invalid signature
\* error; with a changed character of signature.sig it succeeds when the
\* text decodes to the same bytes (a hex letter in the other case), and
\* returns the hex error when the text is no hex, and the ASN.1 error or the
\* invalid signature error otherwise; with the public material of another
\* key it returns the invalid signature error or one of the errors of
\* decoding and matching the key
C4_Tamper ==
    Tampered =>
      /\ last.err # Panic
      /\ last.tamper = "payload" => last.err = ErrInvalidSignature
      /\ last.tamper = "sig" =>
           LET was == hexDecodeString(signed.sig.Sig)
               now == hexDecodeString(last.sigIn.Sig)
           IN  /\ ~now.ok => last.err = ErrHexDecode
               /\ (now.ok /\ now.bytes = was.bytes) => last.err = NoError
               /\ (now.ok /\ now.bytes # was.bytes) =>
                      last.err \in {ErrInvalidSignature, ErrAsn1}
               /\ last.err = ErrAsn1 => last.key.KeyType = ecdsaKeyType
      /\ last.tamper = "public" =>
           last.err \in {ErrInvalidSignature, ErrKeyKeyTypeMismatch,
                         ErrCurveSizeSchemeMismatch, ErrNoPEMBlock, ErrInvalidHexString}

C4_Witness ==
    /\ Tampered
    /\ last.tamper = "sig"
    /\ last.err = ErrInvalidSignature

C6_NoPartialKey == [][last'.err = ErrInvalidKey => key' = key]_vars

\* C7: setKeyComponents with a key type other than rsa, ecdsa and ed25519
\* returns the unsupported key type error and leaves the Key as it was
C7_UnknownKeyType ==
    [][(last'.op = "setKeyComponents" /\ last'.keyType \notin Families)
         => (last'.err = ErrUnsupportedKeyType /\ key' = key)]_vars

C7_Witness ==
    /\ last.op = "setKeyComponents"
    /\ last.keyType = "dsa"
    /\ last.err = ErrUnsupportedKeyType
    /\ key # EmptyKey

\* the key parsed from a text of the Key of the last call
ParsedPrivate == decodeAndParse(last.key.KeyVal.Private)
ParsedPublic == decodeAndParse(last.key.KeyVal.Public)

C9_NoErrorSwallowed ==
    IsSign =>
      /\ last.fault # "" => last.err # NoError
      /\ last.err = NoError =>
           /\ last.sig.KeyId = last.key.KeyId
           /\ last.sig.Sig # EmptyString

\* the type of key a key type declares for its private and public material
PrivateTypeOf(keyType) ==
    CASE keyType = rsaKeyType -> "*rsa.PrivateKey"
      [] keyType = ecdsaKeyType -> "*ecdsa.PrivateKey"
      [] keyType = ed25519KeyType -> "ed25519.PrivateKey"
PublicTypeOf(keyType) ==
    CASE keyType = rsaKeyType -> "*rsa.PublicKey"
      [] keyType = ecdsaKeyType -> "*ecdsa.PublicKey"
      [] keyType = ed25519KeyType -> "ed25519.PublicKey"

\* what a text of key material holds: the key parsed from a PEM block, or,
\* for hex, an Ed25519 private key (64 bytes) or public key (32 bytes)
HeldKeyType(text) ==
    IF decodeAndParse(text).err = NoError THEN decodeAndParse(text).key.type
    ELSE IF hexDecodeString(text).ok /\ Len(hexDecodeString(text).bytes) = 64
    THEN "ed25519.PrivateKey"
    ELSE IF hexDecodeString(text).ok /\ Len(hexDecodeString(text).bytes) = 32
    THEN "ed25519.PublicKey"
    ELSE "none"

KeyIdFields(k) == <<k.KeyType, k.Scheme, k.KeyIdHashAlgorithms, k.KeyVal.Public>>

\* the second Key was populated just now
SecondPopulated == last.tamper = "second" /\ last.key # EmptyKey

\* C11: two Keys populated with the same key type, scheme, hash algorithm
\* list and public material have the same key id, whether or not either holds
\* private material and whatever that material is
C11_KeyIdOfPublicFields ==
    (SecondPopulated /\ KeyIdFields(last.key) = KeyIdFields(key))
       => last.key.KeyId = key.KeyId

\* one Key with private material, one with other or no private material, the
\* same four fields, and a key id that was derived
C11_Witness ==
    /\ SecondPopulated
    /\ KeyIdFields(last.key) = KeyIdFields(key)
    /\ key.KeyVal.Private # EmptyString
    /\ last.key.KeyVal.Private # key.KeyVal.Private
    /\ key.KeyId # EmptyKeyId
    /\ last.key.KeyId = key.KeyId

\* readers in which no PEM block is found: nil, and those that yield text
\* that is no PEM block (a word, a hex string, nothing)
NoPemReaders ==
    {NilReader}
    \cup {DataReader(t) : t \in {x \in FileTexts \cup PublicTexts : ~pemDecode(x).found}}

\* C12: when no PEM block is found in the input (text that is no PEM, empty
\* input, a nil reader), LoadKeyReader returns ErrNoPEMBlock as an error value
\* and leaves the Key as it was, and decodeAndParse returns ErrNoPEMBlock
\* without parsing DER
C12_NoPemBlock ==
    /\ \A reader \in NoPemReaders, scheme \in PopulateSchemes, algs \in HashAlgorithmInputs :
          LoadKeyReader(key, reader, scheme, algs) = [k |-> key, err |-> ErrNoPEMBlock]
    /\ \A reader \in NoPemReaders \ {NilReader} :
          /\ decodeAndParse(reader.text).err = ErrNoPEMBlock
          /\ ~decodeAndParse(reader.text).parsed
          /\ decodeAndParse(reader.text).key = NilKey
    /\ (last.op = "LoadKeyReader" /\ last.keyType = "nil") => last.err = ErrNoPEMBlock

\* a populated Key, and a reader of text without PEM block handed to
\* LoadKeyReader
C12_Witness ==
    /\ last.op = "LoadKeyReader"
    /\ last.keyType = "data"
    /\ last.err = ErrNoPEMBlock
    /\ key # EmptyKey
    /\ key.KeyVal.Private # EmptyString

=============================================================================
